---- MODULE Spec2Model ----
(***************************************************************************)
(* A model of the Python client of the Glue schema registry:               *)
(*   glue_schema_registry/model.py            SalesforceAudit              *)
(*   glue_schema_registry/client.py           GlueSchemaRegistryClient     *)
(*   glue_schema_registry/avro_serializer.py  AvroSerializer               *)
(*   glue_schema_registry/json_serializer.py  JsonSerializer               *)
(*                                                                         *)
(* Text is a sequence of code points, bytes are a sequence of 0..255.      *)
(* The two wire formats are computed: JSON text character by character     *)
(* (json.dumps / json.loads), the Avro row byte by byte (zig-zag varints,  *)
(* length-prefixed UTF-8), as the libraries the code calls compute them.   *)
(***************************************************************************)
EXTENDS Integers, Sequences, FiniteSets, TLC

(***************************************************************************)
(* Bounds of the model.                                                    *)
(***************************************************************************)
\* Length of the long event_details text: its Avro length prefix is a
\* two-byte varint from 64 characters on.
LongLen == 64
\* Versions one schema can accumulate (create_schema plus registrations).
MaxVersions == 2

(***************************************************************************)
(* State.                                                                  *)
(*   registry     the remote registry: schema state per schema name        *)
(*   audit_event  the caller's SalesforceAudit object, if it has one       *)
(*   born         the field values audit_event was constructed with        *)
(*   call         the serializer call in progress: a call is get_schema,   *)
(*                then get_schema_version and the local work; other        *)
(*                clients of the registry run between the two              *)
(*   last         what the most recent operation of the caller returned    *)
(*                or raised, with what it used on the way                  *)
(*   environ      os.environ of the test process                           *)
(*   config_file  the file tests/test-config.ini, if there is one          *)
(*   config       TestConfig._config                                       *)
(*   reads        how many times the process has read config_file          *)
(***************************************************************************)
VARIABLES registry, audit_event, born, call, last,
          environ, config_file, config, reads

cfgvars == <<environ, config_file, config, reads>>

vars == <<registry, audit_event, born, call, last, cfgvars>>

(***************************************************************************)
(* Characters.                                                             *)
(***************************************************************************)
AsciiPrintable ==
  << " ", "!", "\"", "#", "$", "%", "&", "'", "(", ")", "*", "+", ",", "-",
     ".", "/", "0", "1", "2", "3", "4", "5", "6", "7", "8", "9", ":", ";",
     "<", "=", ">", "?", "@", "A", "B", "C", "D", "E", "F", "G", "H", "I",
     "J", "K", "L", "M", "N", "O", "P", "Q", "R", "S", "T", "U", "V", "W",
     "X", "Y", "Z", "[", "\\", "]", "^", "_", "grave", "a", "b", "c", "d", "e",
     "f", "g", "h", "i", "j", "k", "l", "m", "n", "o", "p", "q", "r", "s",
     "t", "u", "v", "w", "x", "y", "z", "{", "|", "}", "~" >>

\* ord(c) of a printable ASCII character (code 96 is entered by name).
Ord(c) == 31 + (CHOOSE i \in 1..Len(AsciiPrintable) : AsciiPrintable[i] = c)

\* A str literal, written as its characters.
Text(cs) == [i \in 1..Len(cs) |-> Ord(cs[i])]

IsDigit(c) == c >= Ord("0") /\ c <= Ord("9")

IsWhitespace(c) == c \in {32, 9, 10, 13}

RECURSIVE Flatten(_)
Flatten(ss) == IF ss = <<>> THEN <<>> ELSE Head(ss) \o Flatten(Tail(ss))

(***************************************************************************)
(* Python values: str, int, float, bool, None, list and dict.  A dict      *)
(* keeps its items in insertion order, as pairs <<key text, value>>.       *)
(***************************************************************************)
PyStr(s) == [k |-> "str", s |-> s, n |-> 0, items |-> <<>>]
PyInt(n) == [k |-> "int", s |-> <<>>, n |-> n, items |-> <<>>]
\* A float with integral part n and the digits frac after the point.
PyFloat(n, frac) == [k |-> "float", s |-> frac, n |-> n, items |-> <<>>]
PyBool(b) == [k |-> "bool", s |-> <<>>, n |-> IF b THEN 1 ELSE 0, items |-> <<>>]
PyNone == [k |-> "NoneType", s |-> <<>>, n |-> 0, items |-> <<>>]
PyEmptyList == [k |-> "list", s |-> <<>>, n |-> 0, items |-> <<>>]
PyDict(items) == [k |-> "dict", s |-> <<>>, n |-> 0, items |-> items]

\* isinstance(v, int): bool is a subclass of int.
IsInstanceInt(v) == v.k \in {"int", "bool"}

DictKeys(d) == {d.items[i][1] : i \in 1..Len(d.items)}

DictHas(d, key) == key \in DictKeys(d)

DictLookup(d, key) ==
  d.items[CHOOSE i \in 1..Len(d.items) : d.items[i][1] = key][2]

\* dict.get(key, default)
DictGet(d, key, default) == IF DictHas(d, key) THEN DictLookup(d, key) ELSE default

\* d[key] = v: an existing key keeps its place.
DictSet(d, key, v) ==
  IF DictHas(d, key)
  THEN PyDict([i \in 1..Len(d.items) |->
                 IF d.items[i][1] = key THEN <<key, v>> ELSE d.items[i]])
  ELSE PyDict(Append(d.items, <<key, v>>))

(***************************************************************************)
(* Exceptions and results.  An exception is its class and its str(), kept  *)
(* as the parts an f-string put together.                                  *)
(***************************************************************************)
NoException == [type |-> "", msg |-> <<>>]

Raise(type, text) == [type |-> type, msg |-> <<text>>]

Ok(v) == [ok |-> TRUE, v |-> v, exc |-> NoException]

Fail(e) == [ok |-> FALSE, v |-> PyNone, exc |-> e]

(***************************************************************************)
(* UTF-8: str.encode('utf-8') and bytes.decode('utf-8').                    *)
(***************************************************************************)
Utf8EncodeChar(c) ==
  IF c < 128 THEN <<c>>
  ELSE IF c < 2048 THEN <<192 + (c \div 64), 128 + (c % 64)>>
  ELSE IF c < 65536
       THEN <<224 + (c \div 4096), 128 + ((c \div 64) % 64), 128 + (c % 64)>>
       ELSE <<240 + (c \div 262144), 128 + ((c \div 4096) % 64),
              128 + ((c \div 64) % 64), 128 + (c % 64)>>

Utf8Encode(s) ==
  IF \A i \in 1..Len(s) : s[i] < 128 THEN s
  ELSE Flatten([i \in 1..Len(s) |-> Utf8EncodeChar(s[i])])

IsContinuation(b, i) == i <= Len(b) /\ b[i] >= 128 /\ b[i] < 192

\* The character starting at byte i: [ok, c, i] with i the next position.
\* Overlong forms, surrogates and code points above U+10FFFF are errors.
Utf8DecodeChar(b, i) ==
  LET x == b[i]
      bad == [ok |-> FALSE, c |-> 0, i |-> i]
  IN  IF x < 128 THEN [ok |-> TRUE, c |-> x, i |-> i + 1]
      ELSE IF x >= 194 /\ x < 224
      THEN IF IsContinuation(b, i + 1)
           THEN [ok |-> TRUE, c |-> (x - 192) * 64 + (b[i + 1] - 128), i |-> i + 2]
           ELSE bad
      ELSE IF x >= 224 /\ x < 240
      THEN IF IsContinuation(b, i + 1) /\ IsContinuation(b, i + 2)
              /\ (x = 224 => b[i + 1] >= 160) /\ (x = 237 => b[i + 1] < 160)
           THEN [ok |-> TRUE,
                 c |-> (x - 224) * 4096 + (b[i + 1] - 128) * 64 + (b[i + 2] - 128),
                 i |-> i + 3]
           ELSE bad
      ELSE IF x >= 240 /\ x < 245
      THEN IF IsContinuation(b, i + 1) /\ IsContinuation(b, i + 2)
              /\ IsContinuation(b, i + 3)
              /\ (x = 240 => b[i + 1] >= 144) /\ (x = 244 => b[i + 1] < 144)
           THEN [ok |-> TRUE,
                 c |-> (x - 240) * 262144 + (b[i + 1] - 128) * 4096
                       + (b[i + 2] - 128) * 64 + (b[i + 3] - 128),
                 i |-> i + 4]
           ELSE bad
      ELSE bad

RECURSIVE Utf8DecodeFrom(_, _, _)
Utf8DecodeFrom(b, i, acc) ==
  IF i > Len(b) THEN Ok(PyStr(acc))
  ELSE LET r == Utf8DecodeChar(b, i)
       IN  IF r.ok THEN Utf8DecodeFrom(b, r.i, Append(acc, r.c))
           ELSE Fail(Raise("UnicodeDecodeError", "invalid utf-8"))

Utf8Decode(b) ==
  IF \A i \in 1..Len(b) : b[i] < 128 THEN Ok(PyStr(b))
  ELSE Utf8DecodeFrom(b, 1, <<>>)

(***************************************************************************)
(* json.dumps, for the values the model holds: str (printable ASCII, so    *)
(* the only escapes are \" and \\), int, float, bool, None, the empty      *)
(* list, and dicts of these with str keys.  Default separators.            *)
(***************************************************************************)
Quote == Ord("\"")
Backslash == Ord("\\")
Slash == Ord("/")
LBrace == Ord("{")
RBrace == Ord("}")
LBracket == Ord("[")
RBracket == Ord("]")
Colon == Ord(":")
Comma == Ord(",")
Minus == Ord("-")
Dot == Ord(".")
Zero == Ord("0")
Space == Ord(" ")
LitTrue == Text(<<"t", "r", "u", "e">>)
LitFalse == Text(<<"f", "a", "l", "s", "e">>)
LitNull == Text(<<"n", "u", "l", "l">>)

RECURSIVE Digits(_)
Digits(n) == IF n < 10 THEN <<Zero + n>> ELSE Append(Digits(n \div 10), Zero + (n % 10))

IntRepr(n) == IF n < 0 THEN <<Minus>> \o Digits(-n) ELSE Digits(n)

JsonEscapeChar(c) == IF c \in {Quote, Backslash} THEN <<Backslash, c>> ELSE <<c>>

JsonString(s) ==
  <<Quote>>
  \o (IF \A i \in 1..Len(s) : s[i] \notin {Quote, Backslash} THEN s
      ELSE Flatten([i \in 1..Len(s) |-> JsonEscapeChar(s[i])]))
  \o <<Quote>>

RECURSIVE JsonEncode(_)
RECURSIVE JsonEncodeItems(_, _)
JsonEncodeItems(items, i) ==
  IF i > Len(items) THEN <<>>
  ELSE (IF i > 1 THEN <<Comma, Space>> ELSE <<>>)
       \o JsonString(items[i][1]) \o <<Colon, Space>> \o JsonEncode(items[i][2])
       \o JsonEncodeItems(items, i + 1)

JsonEncode(v) ==
  CASE v.k = "str" -> JsonString(v.s)
    [] v.k = "int" -> IntRepr(v.n)
    [] v.k = "float" -> IntRepr(v.n) \o <<Dot>> \o v.s
    [] v.k = "bool" -> IF v.n = 1 THEN LitTrue ELSE LitFalse
    [] v.k = "NoneType" -> LitNull
    [] v.k = "list" -> <<LBracket, RBracket>>
    [] v.k = "dict" -> <<LBrace>> \o JsonEncodeItems(v.items, 1) \o <<RBrace>>

\* json.dumps(obj): a str.
JsonDumps(v) == JsonEncode(v)

(***************************************************************************)
(* json.loads, for JSON text of the same shape: objects with string keys,  *)
(* strings with the escapes \" \\ \/, numbers without exponent, true,      *)
(* false, null and the empty array.  A parse step returns [ok, v, i]: the  *)
(* value and the position after it.                                        *)
(***************************************************************************)
ParseOk(v, i) == [ok |-> TRUE, v |-> v, i |-> i]
ParseError == [ok |-> FALSE, v |-> PyNone, i |-> 0]

RECURSIVE SkipWs(_, _)
SkipWs(t, i) == IF i <= Len(t) /\ IsWhitespace(t[i]) THEN SkipWs(t, i + 1) ELSE i

At(t, i, c) == i <= Len(t) /\ t[i] = c

\* t[i..] starts with lit.
Matches(t, i, lit) ==
  i + Len(lit) - 1 <= Len(t) /\ \A j \in 1..Len(lit) : t[i + j - 1] = lit[j]

\* The string whose opening quote is before i, character by character.
RECURSIVE ScanString(_, _, _)
ScanString(t, i, acc) ==
  IF i > Len(t) THEN ParseError
  ELSE IF t[i] = Quote THEN ParseOk(PyStr(acc), i + 1)
  ELSE IF t[i] = Backslash
       THEN IF i + 1 <= Len(t) /\ t[i + 1] \in {Quote, Backslash, Slash}
            THEN ScanString(t, i + 2, Append(acc, t[i + 1]))
            ELSE ParseError
  ELSE IF t[i] < 32 THEN ParseError
  ELSE ScanString(t, i + 1, Append(acc, t[i]))

\* The string whose opening quote is before i.  A string without escapes
\* and control characters is the text up to the next quote.
ScanStringAt(t, i) ==
  LET closing == {j \in i..Len(t) : t[j] = Quote}
      e == CHOOSE j \in closing : \A x \in closing : j <= x
  IN  IF closing = {} THEN ParseError
      ELSE IF \A x \in i..(e - 1) : t[x] # Backslash /\ t[x] >= 32
           THEN ParseOk(PyStr(SubSeq(t, i, e - 1)), e + 1)
           ELSE ScanString(t, i, <<>>)

\* The first position from i on that holds no digit.
RECURSIVE DigitsEnd(_, _)
DigitsEnd(t, i) == IF i <= Len(t) /\ IsDigit(t[i]) THEN DigitsEnd(t, i + 1) ELSE i

\* int() of the digits t[a..b-1].
RECURSIVE DigitsValue(_, _, _)
DigitsValue(t, a, b) ==
  IF a >= b THEN 0 ELSE DigitsValue(t, a, b - 1) * 10 + (t[b - 1] - Zero)

\* NUMBER_RE: -?(0|[1-9]\d*)(\.\d+)?
ScanNumber(t, i) ==
  LET neg == At(t, i, Minus)
      a == IF neg THEN i + 1 ELSE i
      b == IF At(t, a, Zero) THEN a + 1 ELSE DigitsEnd(t, a)
      f == IF At(t, b, Dot) THEN DigitsEnd(t, b + 1) ELSE b
      n == DigitsValue(t, a, b)
  IN  IF b = a THEN ParseError
      ELSE IF f > b + 1
           THEN ParseOk(PyFloat(IF neg THEN -n ELSE n, SubSeq(t, b + 1, f - 1)), f)
           ELSE ParseOk(PyInt(IF neg THEN -n ELSE n), b)

RECURSIVE ScanValue(_, _)
RECURSIVE ScanMembers(_, _, _)
\* The members of an object from the key at i on, added to the dict acc.
ScanMembers(t, i, acc) ==
  IF ~At(t, i, Quote) THEN ParseError
  ELSE LET key == ScanStringAt(t, i + 1)
       IN  IF ~key.ok THEN ParseError
           ELSE LET c == SkipWs(t, key.i)
                IN  IF ~At(t, c, Colon) THEN ParseError
                    ELSE LET val == ScanValue(t, SkipWs(t, c + 1))
                         IN  IF ~val.ok THEN ParseError
                             ELSE LET d == DictSet(acc, key.v.s, val.v)
                                      e == SkipWs(t, val.i)
                                  IN  IF At(t, e, RBrace) THEN ParseOk(d, e + 1)
                                      ELSE IF At(t, e, Comma)
                                           THEN ScanMembers(t, SkipWs(t, e + 1), d)
                                           ELSE ParseError

ScanValue(t, i) ==
  IF i > Len(t) THEN ParseError
  ELSE IF t[i] = Quote THEN ScanStringAt(t, i + 1)
  ELSE IF t[i] = LBrace
       THEN LET j == SkipWs(t, i + 1)
            IN  IF At(t, j, RBrace) THEN ParseOk(PyDict(<<>>), j + 1)
                ELSE ScanMembers(t, j, PyDict(<<>>))
  ELSE IF t[i] = LBracket
       THEN LET j == SkipWs(t, i + 1)
            IN  IF At(t, j, RBracket) THEN ParseOk(PyEmptyList, j + 1) ELSE ParseError
  ELSE IF Matches(t, i, LitNull) THEN ParseOk(PyNone, i + 4)
  ELSE IF Matches(t, i, LitTrue) THEN ParseOk(PyBool(TRUE), i + 4)
  ELSE IF Matches(t, i, LitFalse) THEN ParseOk(PyBool(FALSE), i + 5)
  ELSE ScanNumber(t, i)

\* json.loads(s): the value, or JSONDecodeError (also for text after it).
JsonLoads(s) ==
  LET r == ScanValue(s, SkipWs(s, 1))
  IN  IF ~r.ok THEN Fail(Raise("JSONDecodeError", "Expecting value"))
      ELSE IF SkipWs(s, r.i) <= Len(s) THEN Fail(Raise("JSONDecodeError", "Extra data"))
      ELSE Ok(r.v)

(***************************************************************************)
(* The Avro binary row (fastavro schemaless_writer / schemaless_reader):  *)
(* the fields of the record schema in schema order, a string as the       *)
(* zig-zag varint of its UTF-8 length followed by the bytes, a long as a   *)
(* zig-zag varint.  Nothing of the schema is written.                      *)
(***************************************************************************)
ZigZag(n) == IF n >= 0 THEN 2 * n ELSE -2 * n - 1

UnZigZag(u) == IF u % 2 = 0 THEN u \div 2 ELSE -((u + 1) \div 2)

RECURSIVE Varint(_)
Varint(u) == IF u < 128 THEN <<u>> ELSE <<128 + (u % 128)>> \o Varint(u \div 128)

\* BinaryEncoder.write_long
WriteLong(n) == Varint(ZigZag(n))

\* BinaryEncoder.write_utf8
WriteUtf8(s) == LET b == Utf8Encode(s) IN WriteLong(Len(b)) \o b

ReadOk(v, i) == [ok |-> TRUE, v |-> v, i |-> i, exc |-> NoException]
ReadFail(e) == [ok |-> FALSE, v |-> PyNone, i |-> 0, exc |-> e]

\* BinaryDecoder.read_long from byte i: base-128 digits, low digit first.
RECURSIVE ReadVarint(_, _, _, _)
ReadVarint(b, i, mult, acc) ==
  IF i > Len(b) THEN ReadFail(Raise("EOFError", "end of data"))
  ELSE LET u == acc + (b[i] % 128) * mult
       IN  IF b[i] < 128 THEN ReadOk(PyInt(UnZigZag(u)), i + 1)
           ELSE ReadVarint(b, i + 1, mult * 128, u)

ReadLong(b, i) == ReadVarint(b, i, 1, 0)

\* BinaryDecoder.read_utf8 from byte i.
ReadUtf8(b, i) ==
  LET size == ReadLong(b, i)
  IN  IF ~size.ok THEN size
      ELSE IF size.v.n < 0 \/ size.i + size.v.n - 1 > Len(b)
           THEN ReadFail(Raise("EOFError", "Expected more bytes"))
           ELSE LET r == Utf8Decode(SubSeq(b, size.i, size.i + size.v.n - 1))
                IN  IF r.ok THEN ReadOk(r.v, size.i + size.v.n) ELSE ReadFail(r.exc)

\* write_data for a field of the given type: the bytes, or the error.
WriteDatum(type, v) ==
  IF type = "string"
  THEN IF v.k = "str" THEN Ok(WriteUtf8(v.s))
       ELSE Fail(Raise("TypeError", "expected str"))
  ELSE IF IsInstanceInt(v) THEN Ok(WriteLong(v.n))
       ELSE Fail(Raise("TypeError", "an integer is required"))

ReadDatum(type, b, i) == IF type = "string" THEN ReadUtf8(b, i) ELSE ReadLong(b, i)

\* write_record: the fields from the k-th on, appended to the writer's bytes.
RECURSIVE WriteRecord(_, _, _, _)
WriteRecord(out, fields, k, datum) ==
  IF k > Len(fields) THEN Ok(out)
  ELSE IF ~DictHas(datum, fields[k].name)
       THEN Fail(Raise("ValueError", "no value and no default"))
       ELSE LET w == WriteDatum(fields[k].type, DictLookup(datum, fields[k].name))
            IN  IF w.ok THEN WriteRecord(out \o w.v, fields, k + 1, datum) ELSE w

\* read_record: the fields from the k-th on, read from byte i into the dict acc.
RECURSIVE ReadRecord(_, _, _, _, _)
ReadRecord(b, i, fields, k, acc) ==
  IF k > Len(fields) THEN Ok(acc)
  ELSE LET r == ReadDatum(fields[k].type, b, i)
       IN  IF r.ok THEN ReadRecord(b, r.i, fields, k + 1, DictSet(acc, fields[k].name, r.v))
           ELSE Fail(r.exc)

\* schemaless_writer(fo, schema, record); returns fo's contents.
SchemalessWriter(fo, schema, record) == WriteRecord(fo, schema.fields, 1, record)

\* schemaless_reader(fo, schema): the record read, as a dict.  Bytes after
\* the last field are not looked at.
SchemalessReader(data, schema) == ReadRecord(data, 1, schema.fields, 1, PyDict(<<>>))

(***************************************************************************)
(* Schema definitions: the text a schema version holds.  The model keeps   *)
(* a definition as what json.loads and fastavro.parse_schema make of it:   *)
(* an Avro record schema with its fields in order, or a JSON document      *)
(* that is no Avro schema (a JSON Schema, as a JSON-format schema holds).  *)
(***************************************************************************)
KeyEventId == Text(<<"e", "v", "e", "n", "t", "I", "d">>)
KeyEventName == Text(<<"e", "v", "e", "n", "t", "N", "a", "m", "e">>)
KeyTimestamp == Text(<<"t", "i", "m", "e", "s", "t", "a", "m", "p">>)
KeyEventDetails == Text(<<"e", "v", "e", "n", "t", "D", "e", "t", "a", "i", "l", "s">>)

Field(name, type) == [name |-> name, type |-> type]

CanonicalDef ==
  [form |-> "avro_record",
   fields |-> << Field(KeyEventId, "string"), Field(KeyEventName, "string"),
                 Field(KeyTimestamp, "long"), Field(KeyEventDetails, "string") >>]

\* The same four fields in another order.
ReorderedDef ==
  [form |-> "avro_record",
   fields |-> << Field(KeyTimestamp, "long"), Field(KeyEventDetails, "string"),
                 Field(KeyEventId, "string"), Field(KeyEventName, "string") >>]

\* A record schema that does not declare eventDetails.
NoDetailsDef ==
  [form |-> "avro_record",
   fields |-> << Field(KeyEventId, "string"), Field(KeyEventName, "string"),
                 Field(KeyTimestamp, "long") >>]

JsonSchemaDef == [form |-> "json_schema", fields |-> <<>>]

Definitions == {CanonicalDef, ReorderedDef, NoDetailsDef, JsonSchemaDef}

\* json.loads(schema_definition) followed by parse_schema(schema_dict).
ParseSchema(definition) ==
  IF definition.form = "avro_record" THEN Ok(definition)
  ELSE Fail(Raise("SchemaParseException", "not an Avro schema"))

(***************************************************************************)
(* Exception handling: `except <class> as e: raise                         *)
(* SchemaRegistryException(f"<prefix>: {e}")`.                              *)
(***************************************************************************)
ExceptionClasses ==
  {"ClientError", "EndpointConnectionError", "SchemaRegistryException",
   "KeyError", "ValueError", "TypeError", "AttributeError", "EOFError",
   "UnicodeDecodeError", "JSONDecodeError", "SchemaParseException"}

\* The classes an except clause naming `handler` catches.  ClientError has
\* no subclass among them; EndpointConnectionError is a BotoCoreError.
Handles(handler) ==
  IF handler = "Exception" THEN ExceptionClasses
  ELSE IF handler = "ClientError" THEN {"ClientError"}
  ELSE {}

\* SchemaRegistryException(f"{prefix}: {e}")
SchemaRegistryException(prefix, e) ==
  [type |-> "SchemaRegistryException", msg |-> <<prefix>> \o e.msg]

Except(handler, prefix, r) ==
  IF ~r.ok /\ r.exc.type \in Handles(handler)
  THEN Fail(SchemaRegistryException(prefix, r.exc))
  ELSE r

(***************************************************************************)
(* model.py: SalesforceAudit.                                              *)
(***************************************************************************)
NoObject ==
  [live |-> FALSE, event_id |-> PyNone, event_name |-> PyNone,
   timestamp |-> PyNone, event_details |-> PyNone]

\* __post_init__
PostInitSkippingSign(self) ==
  IF ~IsInstanceInt(self.timestamp)
  THEN Fail(Raise("ValueError", "timestamp must be an integer"))
  ELSE Ok(PyNone)

PostInit(self) ==
  IF ~IsInstanceInt(self.timestamp)
  THEN Fail(Raise("ValueError", "timestamp must be an integer"))
  ELSE IF self.timestamp.n < 0
       THEN Fail(Raise("ValueError", "timestamp must be non-negative"))
       ELSE Ok(PyNone)

\* SalesforceAudit(event_id, event_name, timestamp, event_details): the
\* generated __init__ stores the four fields and calls __post_init__.
SalesforceAudit(event_id, event_name, timestamp, event_details) ==
  LET self == [live |-> TRUE, event_id |-> event_id, event_name |-> event_name,
               timestamp |-> timestamp, event_details |-> event_details]
      checked == PostInit(self)
  IN  IF checked.ok THEN Ok(self) ELSE checked

\* Attribute assignment: the dataclass is not frozen, so the generated
\* class stores the value; __post_init__ does not run again.
SetAttribute(self, field, v) == [self EXCEPT ![field] = v]

\* to_dict
ToDictSwapped(self) ==
  PyDict(<< <<KeyEventId, self.event_name>>, <<KeyEventName, self.event_id>>,
            <<KeyTimestamp, self.timestamp>>, <<KeyEventDetails, self.event_details>> >>)

ToDict(self) ==
  PyDict(<< <<KeyEventId, self.event_id>>, <<KeyEventName, self.event_name>>,
            <<KeyTimestamp, self.timestamp>>, <<KeyEventDetails, self.event_details>> >>)

\* from_dict: data.get(key, default) for each field, then the constructor.
FromDictStrict(data) ==
  IF data.k # "dict"
  THEN Fail(Raise("AttributeError", "object has no attribute 'get'"))
  ELSE IF \E key \in {KeyEventId, KeyEventName, KeyTimestamp, KeyEventDetails} :
            ~DictHas(data, key)
       THEN Fail(Raise("KeyError", "missing key"))
       ELSE SalesforceAudit(DictLookup(data, KeyEventId), DictLookup(data, KeyEventName),
                            DictLookup(data, KeyTimestamp), DictLookup(data, KeyEventDetails))

FromDict(data) ==
  IF data.k # "dict"
  THEN Fail(Raise("AttributeError", "object has no attribute 'get'"))
  ELSE SalesforceAudit(DictGet(data, KeyEventId, PyStr(<<>>)),
                       DictGet(data, KeyEventName, PyStr(<<>>)),
                       DictGet(data, KeyTimestamp, PyInt(0)),
                       DictGet(data, KeyEventDetails, PyStr(<<>>)))

(***************************************************************************)
(* The registry service behind glue_client, and client.py over it.  The    *)
(* registry holds one schema state per name: its versions (definitions,    *)
(* version n at index n, never rewritten), its compatibility mode and its  *)
(* description.  A schema exists when it has a version.  Every remote call *)
(* can fail: with a ClientError (an error response of the service), or     *)
(* with an EndpointConnectionError (no response; not a ClientError).  A    *)
(* response can also come without the keys the callers read.               *)
(***************************************************************************)
SchemaNames == {"SalesforceAudit"}

Compatibilities == {"BACKWARD"}

Faults == {"none", "client_error", "connection_error", "incomplete_response"}

NoSchema == [versions |-> <<>>, compatibility |-> "", description |-> ""]

RemoteFailure(fault) ==
  IF fault = "connection_error"
  THEN Fail(Raise("EndpointConnectionError", "Could not connect to the endpoint URL"))
  ELSE Fail(Raise("ClientError", "AccessDeniedException"))

NotFound == Fail(Raise("ClientError", "EntityNotFoundException"))

\* glue_client.get_schema(SchemaId=...)
GlueGetSchema(reg, schema_name, fault) ==
  IF fault \in {"client_error", "connection_error"} THEN RemoteFailure(fault)
  ELSE IF reg[schema_name].versions = <<>> THEN NotFound
  ELSE IF fault = "incomplete_response" THEN Ok([SchemaName |-> schema_name])
  ELSE Ok([SchemaName |-> schema_name,
           LatestSchemaVersion |-> Len(reg[schema_name].versions),
           Compatibility |-> reg[schema_name].compatibility,
           Description |-> reg[schema_name].description])

\* glue_client.get_schema_version(SchemaId=..., SchemaVersionNumber=...)
GlueGetSchemaVersion(reg, schema_name, version_number, fault) ==
  IF fault \in {"client_error", "connection_error"} THEN RemoteFailure(fault)
  ELSE IF version_number \notin 1..Len(reg[schema_name].versions) THEN NotFound
  ELSE IF fault = "incomplete_response" THEN Ok([VersionNumber |-> version_number])
  ELSE Ok([VersionNumber |-> version_number,
           SchemaDefinition |-> reg[schema_name].versions[version_number]])

\* GlueSchemaRegistryClient.get_schema
ClientGetSchema(reg, schema_name, fault) ==
  Except("ClientError", "Failed to get schema", GlueGetSchema(reg, schema_name, fault))

\* GlueSchemaRegistryClient.get_schema_version
ClientGetSchemaVersion(reg, schema_name, version_number, fault) ==
  Except("ClientError", "Failed to get schema version",
         GlueGetSchemaVersion(reg, schema_name, version_number, fault))

\* response[key]
Subscript(response, key) ==
  IF ~response.ok THEN response
  ELSE IF key \notin DOMAIN response.v THEN Fail(Raise("KeyError", key))
  ELSE Ok(response.v[key])

(***************************************************************************)
(* avro_serializer.py and json_serializer.py: what each method does once   *)
(* the schema is fetched.                                                  *)
(***************************************************************************)
\* bytes_writer = io.BytesIO()
SharedBytesIO == IF call.prev.live THEN call.prev.bytes ELSE <<>>

NewBytesIO == <<>>

\* The record handed to schemaless_writer.
AvroRecordMisnamed(event) ==
  PyDict(<< <<KeyEventId, event.event_id>>,
            <<KeyEventName, event.event_name>>,
            <<KeyTimestamp, event.timestamp>>,
            <<KeyEventDetails, event.event_name>> >>)

AvroRecord(event) ==
  PyDict(<< <<KeyEventId, event.event_id>>,
            <<KeyEventName, event.event_name>>,
            <<KeyTimestamp, event.timestamp>>,
            <<KeyEventDetails, event.event_details>> >>)

\* AvroSerializer.serialize after the fetch.
AvroWrite(schema_definition, event) ==
  LET avro_schema == ParseSchema(schema_definition)
  IN  IF ~avro_schema.ok THEN avro_schema
      ELSE SchemalessWriter(NewBytesIO, avro_schema.v, AvroRecord(event))

\* SalesforceAudit(event_id=record['eventId'], ...): the subscripts are
\* evaluated in this order, the first missing key raises.
AuditFromAvroRecord(record) ==
  LET wanted == <<KeyEventId, KeyEventName, KeyTimestamp, KeyEventDetails>>
  IN  IF \E i \in 1..4 : ~DictHas(record, wanted[i])
      THEN Fail(Raise("KeyError", "missing field"))
      ELSE SalesforceAudit(DictLookup(record, KeyEventId),
                           DictLookup(record, KeyEventName),
                           DictLookup(record, KeyTimestamp),
                           DictLookup(record, KeyEventDetails))

\* AvroSerializer.deserialize after the fetch.
AvroRead(schema_definition, data) ==
  LET avro_schema == ParseSchema(schema_definition)
  IN  IF ~avro_schema.ok THEN avro_schema
      ELSE LET record == SchemalessReader(data, avro_schema.v)
           IN  IF ~record.ok THEN record ELSE AuditFromAvroRecord(record.v)

\* JsonSerializer.serialize after the fetch.
JsonWrite(event) == Ok(Utf8Encode(JsonDumps(ToDict(event))))

\* JsonSerializer.deserialize after the fetch.
JsonRead(data) ==
  LET json_str == Utf8Decode(data)
  IN  IF ~json_str.ok THEN json_str
      ELSE LET data_dict == JsonLoads(json_str.v.s)
           IN  IF ~data_dict.ok THEN data_dict ELSE FromDict(data_dict.v)

\* The class both serializers name in their except clause.
ClientErrorOnly == "ClientError"

SerializerExcept == "Exception"

(***************************************************************************)
(* Inputs.                                                                 *)
(***************************************************************************)
\* Long event details, with a quote, a backslash and a slash in them.
LongText == Text(<<"a", "\"", "\\", "/", " ", "b">>) \o [i \in 1..LongLen |-> Ord("a")]

\* SalesforceAudit("", "", 0, "")
ArgsEmpty == <<PyStr(<<>>), PyStr(<<>>), PyInt(0), PyStr(<<>>)>>

\* SalesforceAudit("evt-001", "Create", 1000000, <long details>)
ArgsCreate ==
  << PyStr(Text(<<"e", "v", "t", "-", "0", "0", "1">>)),
     PyStr(Text(<<"C", "r", "e", "a", "t", "e">>)),
     PyInt(1000000),
     PyStr(LongText) >>

\* SalesforceAudit(5, "", 64, ""): the text fields are not checked.
ArgsNumberId == <<PyInt(5), PyStr(<<>>), PyInt(64), PyStr(<<>>)>>

ArgsNegative == <<PyStr(Text(<<"x">>)), PyStr(<<>>), PyInt(-1), PyStr(<<>>)>>

ArgsFloat == <<PyStr(Text(<<"x">>)), PyStr(<<>>), PyFloat(1, Text(<<"5">>)), PyStr(<<>>)>>

ArgsText == <<PyStr(Text(<<"x">>)), PyStr(<<>>), PyStr(Text(<<"7">>)), PyStr(<<>>)>>

ConstructorArgs ==
  {ArgsEmpty, ArgsCreate, ArgsNumberId, ArgsNegative, ArgsFloat, ArgsText}

\* Assignments a caller can make to a field of an existing object.
Assignments == {<<"timestamp", PyInt(-1)>>}

WireKeys == {KeyEventId, KeyEventName, KeyTimestamp, KeyEventDetails}

\* The JSON object with the keys `keys` of the four, holding
\* eventId "x", eventName "n", timestamp 7, eventDetails "d".
SampleDict(keys) ==
  PyDict(SelectSeq(<< <<KeyEventId, PyStr(Text(<<"x">>))>>,
                      <<KeyEventName, PyStr(Text(<<"n">>))>>,
                      <<KeyTimestamp, PyInt(7)>>,
                      <<KeyEventDetails, PyStr(Text(<<"d">>))>> >>,
                   LAMBDA item : item[1] \in keys))

SamplePayload(keys) == Utf8Encode(JsonDumps(SampleDict(keys)))

JsonPayloads ==
  {SamplePayload(keys) : keys \in SUBSET WireKeys}
  \cup { \* {"timestamp": -1}
         Text(<<"{", "\"", "t", "i", "m", "e", "s", "t", "a", "m", "p", "\"", ":", " ",
                "-", "1", "}">>),
         \* {"timestamp": 1.5}
         Text(<<"{", "\"", "t", "i", "m", "e", "s", "t", "a", "m", "p", "\"", ":", " ",
                "1", ".", "5", "}">>),
         \* {"eventId": 5, "timestamp": null}
         Text(<<"{", "\"", "e", "v", "e", "n", "t", "I", "d", "\"", ":", " ", "5", ",",
                " ", "\"", "t", "i", "m", "e", "s", "t", "a", "m", "p", "\"", ":", " ",
                "n", "u", "l", "l", "}">>),
         \* {"eventId": 5}
         Text(<<"{", "\"", "e", "v", "e", "n", "t", "I", "d", "\"", ":", " ", "5", "}">>),
         \* []
         Text(<<"[", "]">>),
         \* "x"
         Text(<<"\"", "x", "\"">>),
         \* {"eventId": "x"   (cut short)
         Text(<<"{", "\"", "e", "v", "e", "n", "t", "I", "d", "\"", ":", " ", "\"", "x",
                "\"">>),
         \* a byte that is not UTF-8
         <<255>> }

\* Byte strings that no serialize call produced.
BinaryPayloads ==
  { <<1, 2, 3, 4, 5>>,     \* five arbitrary bytes
    <<>>,
    <<2, 120, 0, 2>>,      \* a row cut after its third field
    <<0, 0, 0, 0, 9>>,     \* a row followed by one more byte
    <<2, 255, 0, 0, 0>>,   \* a string that is not UTF-8
    <<0, 0, 1, 0>>,        \* a row whose timestamp is -1
    <<255>> }

(***************************************************************************)
(* Initial state and results.                                              *)
(***************************************************************************)
(***************************************************************************)
(* tests/test_config.py: TestConfig.  A getter returns the environment     *)
(* variable when it holds a non-empty string, and else asks the parser     *)
(* that _load_config made of the file on the first call that needed it.    *)
(***************************************************************************)
\* Each getter: the variable of the environment, the option of the [test]
\* section, and the fallback.
Settings ==
  [get_registry_name |->
     [env |-> "GLUE_REGISTRY_NAME",
      option |-> Text(<<"g", "l", "u", "e", ".", "r", "e", "g", "i", "s", "t", "r",
                     "y", ".", "n", "a", "m", "e">>),
      fallback |-> PyStr(Text(<<"g", "l", "u", "e", "-", "s", "c", "h", "e", "m", "a", "-",
                              "r", "e", "g", "i", "s", "t", "r", "y", "-", "a", "n", "s",
                              "u", "m", "a", "n", "r", "o", "y", "-", "6", "2", "1", "9">>))],
   get_aws_region |->
     [env |-> "AWS_REGION",
      option |-> Text(<<"a", "w", "s", ".", "r", "e", "g", "i", "o", "n">>),
      fallback |-> PyStr(Text(<<"u", "s", "-", "e", "a", "s", "t", "-", "1">>))],
   get_avro_schema_name |->
     [env |-> "SCHEMA_NAME_AVRO",
      option |-> Text(<<"s", "c", "h", "e", "m", "a", ".", "n", "a", "m", "e", ".",
                     "a", "v", "r", "o">>),
      fallback |-> PyStr(Text(<<"S", "a", "l", "e", "s", "f", "o", "r", "c", "e", "A", "u",
                              "d", "i", "t">>))],
   get_json_schema_name |->
     [env |-> "SCHEMA_NAME_JSON",
      option |-> Text(<<"s", "c", "h", "e", "m", "a", ".", "n", "a", "m", "e", ".",
                     "j", "s", "o", "n">>),
      fallback |-> PyStr(Text(<<"S", "a", "l", "e", "s", "A", "u", "d", "i", "t", "J", "S",
                              "O", "N">>))]]

EnvNames == {Settings[op].env : op \in DOMAIN Settings}

\* The file: whether it is there, whether it has a [test] section, and the
\* options of that section.
NoFile == [exists |-> FALSE, has_test |-> FALSE, options |-> PyDict(<<>>)]

\* A file in which the getters in `ops` find their option, each with the
\* value "ini".
FileWith(has_test, ops) ==
  LET present == SelectSeq(<<"get_registry_name", "get_aws_region",
                             "get_avro_schema_name", "get_json_schema_name">>,
                           LAMBDA op : op \in ops)
  IN  [exists |-> TRUE, has_test |-> has_test,
       options |-> PyDict([i \in 1..Len(present) |->
                             <<Settings[present[i]].option,
                               PyStr(Text(<<"i", "n", "i">>))>>])]

\* cls._config: None, or the parser with what it has read.
NoConfig == [loaded |-> FALSE, has_test |-> FALSE, options |-> PyDict(<<>>)]

\* if env_value:
Truthy(v) == v.k = "str" /\ v.s # <<>>

\* TestConfig._load_config: the parser, and whether the file was read.  A
\* file that is not there leaves the new parser empty.
LoadConfigAgain(cfg, file) ==
  [config |-> [loaded |-> TRUE, has_test |-> file.has_test, options |-> file.options],
   read |-> file.exists]

LoadConfig(cfg, file) ==
  IF cfg.loaded THEN [config |-> cfg, read |-> FALSE]
  ELSE [config |-> [loaded |-> TRUE, has_test |-> file.has_test,
                    options |-> file.options],
        read |-> file.exists]

\* config.get("test", option, fallback=...)
ConfigGet(cfg, option, fallback) ==
  IF cfg.has_test /\ DictHas(cfg.options, option)
  THEN DictLookup(cfg.options, option)
  ELSE fallback

NoDefinition == [form |-> "none", fields |-> <<>>]

\* An earlier successful serialize call, as the caller remembers it.
NoPrev ==
  [live |-> FALSE, adapter |-> "", name |-> "", audit_event |-> NoObject,
   definition |-> NoDefinition, latest |-> 0, bytes |-> <<>>]

NoLast ==
  [op |-> "none", adapter |-> "", name |-> "", arg |-> PyNone, ok |-> FALSE,
   exc |-> NoException, cause |-> NoException, ret |-> PyNone,
   definition |-> NoDefinition, latest |-> 0, fetched |-> FALSE,
   fault |-> "", calls |-> <<>>, prev |-> NoPrev,
   before |-> NoSchema, after |-> NoSchema]

IdleCall ==
  [pc |-> "idle", op |-> "", adapter |-> "", name |-> "", arg |-> PyNone,
   latest |-> 0, calls |-> <<>>, prev |-> NoPrev]

Idle == call.pc = "idle"

\* The earlier successful serialize call the caller still holds the bytes of.
Remembered ==
  IF last.op = "serialize" /\ last.ok
  THEN [live |-> TRUE, adapter |-> last.adapter, name |-> last.name,
        audit_event |-> last.arg,
        definition |-> last.definition, latest |-> last.latest, bytes |-> last.ret]
  ELSE IF last.op \in {"serialize", "deserialize"} THEN last.prev
  ELSE NoPrev

\* What a serializer call is compared with when it returns: the earlier
\* serialize call of the same adapter, for deserialize when it is given
\* the bytes of that call.
CarryPrev(adapter, op, arg) ==
  IF Remembered.live /\ Remembered.adapter = adapter
     /\ (op = "deserialize" => arg = Remembered.bytes)
  THEN Remembered
  ELSE NoPrev

Init ==
  /\ registry = [name \in SchemaNames |-> NoSchema]
  /\ audit_event = NoObject
  /\ born = NoObject
  /\ call = IdleCall
  /\ last = NoLast
  /\ environ = [name \in EnvNames |-> PyNone]
  /\ config_file = NoFile
  /\ config = NoConfig
  /\ reads = 0

\* The outcome of an operation that is no serializer call.
Outcome(op, arg, r) ==
  [NoLast EXCEPT !.op = op, !.arg = arg, !.ok = r.ok, !.exc = r.exc,
                 !.cause = r.exc, !.ret = r.v]

(***************************************************************************)
(* The caller's operations on its record.                                  *)
(***************************************************************************)
\* audit_event = SalesforceAudit(...)
Construct(args) ==
  /\ Idle
  /\ LET r == SalesforceAudit(args[1], args[2], args[3], args[4])
     IN  /\ audit_event' = IF r.ok THEN r.v ELSE audit_event
         /\ born' = IF r.ok THEN r.v ELSE born
         /\ last' = Outcome("construct", args, r)
  /\ UNCHANGED <<registry, call, cfgvars>>

\* audit_event.<field> = v
Assign(field, v) ==
  /\ Idle
  /\ audit_event.live
  /\ audit_event' = SetAttribute(audit_event, field, v)
  /\ last' = Outcome("assign", <<field, v>>, Ok(PyNone))
  /\ UNCHANGED <<registry, born, call, cfgvars>>

\* audit_event.to_dict()
CallToDict ==
  /\ Idle
  /\ audit_event.live
  /\ last' = Outcome("to_dict", audit_event, Ok(ToDict(audit_event)))
  /\ UNCHANGED <<registry, audit_event, born, call, cfgvars>>

(***************************************************************************)
(* client.py, called directly.                                             *)
(***************************************************************************)
GetSchema(schema_name, fault) ==
  /\ Idle
  /\ last' = [Outcome("get_schema", schema_name,
                      ClientGetSchema(registry, schema_name, fault))
                EXCEPT !.fault = fault]
  /\ UNCHANGED <<registry, audit_event, born, call, cfgvars>>

GetSchemaVersion(schema_name, version_number, fault) ==
  /\ Idle
  /\ last' = [Outcome("get_schema_version", <<schema_name, version_number>>,
                      ClientGetSchemaVersion(registry, schema_name, version_number, fault))
                EXCEPT !.fault = fault]
  /\ UNCHANGED <<registry, audit_event, born, call, cfgvars>>

\* create_schema, by any client of the registry: the service stores the
\* definition as version 1 of a new schema.
CreateSchema(schema_name, schema_definition, compatibility) ==
  /\ registry[schema_name].versions = <<>>
  /\ registry' = [registry EXCEPT ![schema_name] =
                    [versions |-> <<schema_definition>>,
                     compatibility |-> compatibility,
                     description |-> ""]]
  /\ UNCHANGED <<audit_event, born, call, last, cfgvars>>

\* register_schema_version, by any client of the registry: the service adds
\* the definition as the next version, unless a version already holds it or
\* it is of another data format than the schema.
RegisterSchemaVersion(schema_name, schema_definition) ==
  LET versions == registry[schema_name].versions
  IN  /\ versions # <<>>
      /\ Len(versions) < MaxVersions
      /\ schema_definition.form = versions[1].form
      /\ \A i \in 1..Len(versions) : versions[i] # schema_definition
      /\ registry' = [registry EXCEPT ![schema_name].versions =
                        Append(versions, schema_definition)]
      /\ UNCHANGED <<audit_event, born, call, last, cfgvars>>

(***************************************************************************)
(* The serializer calls.  Each of the four methods starts with             *)
(*     schema_response = client.get_schema(schema_name)                    *)
(*     latest_version = schema_response['LatestSchemaVersion']             *)
(*     schema_version_response = client.get_schema_version(schema_name,    *)
(*                                                         latest_version) *)
(* inside try: ... except Exception as e: raise SchemaRegistryException.   *)
(***************************************************************************)
RemoteCall(api, schema_name, version_number) ==
  [api |-> api, name |-> schema_name, version |-> version_number]

\* The call up to latest_version: it goes on to get_schema_version, or it
\* raises.
Fetch(adapter, op, prefix, schema_name, arg, fault) ==
  LET latest_version ==
        Subscript(ClientGetSchema(registry, schema_name, fault), "LatestSchemaVersion")
      calls == <<RemoteCall("get_schema", schema_name, 0)>>
      raised == Except(SerializerExcept, prefix, latest_version)
  IN  IF latest_version.ok
      THEN /\ call' = [pc |-> "get_schema_version", op |-> op, adapter |-> adapter,
                       name |-> schema_name, arg |-> arg, latest |-> latest_version.v,
                       calls |-> calls, prev |-> CarryPrev(adapter, op, arg)]
           /\ last' = [NoLast EXCEPT !.op = "pending"]
      ELSE /\ call' = IdleCall
           /\ last' = [NoLast EXCEPT !.op = op, !.adapter = adapter,
                                     !.name = schema_name,
                                     !.exc = raised.exc, !.cause = latest_version.exc,
                                     !.fault = fault, !.calls = calls]

\* latest_version, as get_schema_version is handed it.
EarlierVersion == call.latest - 1

LatestVersion == call.latest

\* schema_version_response = client.get_schema_version(schema_name, latest_version)
SchemaVersionResponse(fault) ==
  ClientGetSchemaVersion(registry, call.name, LatestVersion, fault)

\* schema_definition = schema_version_response['SchemaDefinition']
SchemaDefinition(fault) == Subscript(SchemaVersionResponse(fault), "SchemaDefinition")

\* The end of the call: `inner` is what the body of the try block came to,
\* a value or an exception.
Return(adapter, op, prefix, fault, fetched, inner) ==
  LET response == SchemaVersionResponse(fault)
      result == Except(SerializerExcept, prefix, inner)
  IN  /\ call.pc = "get_schema_version"
      /\ call.adapter = adapter
      /\ call.op = op
      /\ call' = IdleCall
      /\ last' = [op |-> op, adapter |-> adapter, name |-> call.name, arg |-> call.arg,
                  ok |-> result.ok, exc |-> result.exc, cause |-> inner.exc,
                  ret |-> result.v,
                  definition |-> IF response.ok /\ "SchemaDefinition" \in DOMAIN response.v
                                 THEN response.v.SchemaDefinition ELSE NoDefinition,
                  latest |-> call.latest, fetched |-> fetched,
                  fault |-> fault,
                  calls |-> Append(call.calls,
                                   RemoteCall("get_schema_version", call.name, LatestVersion)),
                  prev |-> call.prev,
                  before |-> NoSchema, after |-> NoSchema]

\* AvroSerializer.serialize(client, schema_name, audit_event)
AvroSerializeRegistering(schema_name, fault) ==
  /\ Idle
  /\ audit_event.live
  /\ Fetch("avro", "serialize", "Failed to serialize SalesforceAudit",
           schema_name, audit_event, fault)
  /\ registry' = [registry EXCEPT ![schema_name].versions = Append(@, CanonicalDef)]
  /\ UNCHANGED <<audit_event, born, cfgvars>>

AvroSerialize(schema_name, fault) ==
  /\ Idle
  /\ audit_event.live
  /\ Fetch("avro", "serialize", "Failed to serialize SalesforceAudit",
           schema_name, audit_event, fault)
  /\ UNCHANGED <<registry, audit_event, born, cfgvars>>

AvroSerializeReturn(fault) ==
  LET schema_definition == SchemaDefinition(fault)
  IN  /\ Return("avro", "serialize", "Failed to serialize SalesforceAudit", fault,
                schema_definition.ok,
                IF schema_definition.ok THEN AvroWrite(schema_definition.v, call.arg)
                ELSE schema_definition)
      /\ UNCHANGED <<registry, audit_event, born, cfgvars>>

\* AvroSerializer.deserialize(client, schema_name, data)
AvroDeserialize(schema_name, data, fault) ==
  /\ Idle
  /\ Fetch("avro", "deserialize", "Failed to deserialize SalesforceAudit",
           schema_name, data, fault)
  /\ UNCHANGED <<registry, audit_event, born, cfgvars>>

AvroDeserializeReturn(fault) ==
  LET schema_definition == SchemaDefinition(fault)
  IN  /\ Return("avro", "deserialize", "Failed to deserialize SalesforceAudit", fault,
                schema_definition.ok,
                IF schema_definition.ok THEN AvroRead(schema_definition.v, call.arg)
                ELSE schema_definition)
      /\ UNCHANGED <<registry, audit_event, born, cfgvars>>

\* JsonSerializer.serialize(client, schema_name, audit_event); the response
\* of get_schema_version is not looked at.
JsonSerialize(schema_name, fault) ==
  /\ Idle
  /\ audit_event.live
  /\ Fetch("json", "serialize", "Failed to serialize SalesforceAudit to JSON",
           schema_name, audit_event, fault)
  /\ UNCHANGED <<registry, audit_event, born, cfgvars>>

JsonSerializeReturn(fault) ==
  LET schema_version_response == SchemaVersionResponse(fault)
  IN  /\ Return("json", "serialize", "Failed to serialize SalesforceAudit to JSON", fault,
                schema_version_response.ok,
                IF schema_version_response.ok THEN JsonWrite(call.arg)
                ELSE schema_version_response)
      /\ UNCHANGED <<registry, audit_event, born, cfgvars>>

\* JsonSerializer.deserialize(client, schema_name, data)
JsonDeserialize(schema_name, data, fault) ==
  /\ Idle
  /\ Fetch("json", "deserialize", "Failed to deserialize JSON to SalesforceAudit",
           schema_name, data, fault)
  /\ UNCHANGED <<registry, audit_event, born, cfgvars>>

JsonDeserializeReturn(fault) ==
  LET schema_version_response == SchemaVersionResponse(fault)
  IN  /\ Return("json", "deserialize", "Failed to deserialize JSON to SalesforceAudit",
                fault, schema_version_response.ok,
                IF schema_version_response.ok THEN JsonRead(call.arg)
                ELSE schema_version_response)
      /\ UNCHANGED <<registry, audit_event, born, cfgvars>>

\* The byte strings the caller hands to deserialize: the inputs, and the
\* bytes an earlier serialize call of the adapter returned to it.
Deserializable(adapter) ==
  (IF adapter = "avro" THEN BinaryPayloads ELSE JsonPayloads)
  \cup (IF Remembered.live /\ Remembered.adapter = adapter THEN {Remembered.bytes} ELSE {})

Next ==
  \/ \E args \in ConstructorArgs : Construct(args)
  \/ \E a \in Assignments : Assign(a[1], a[2])
  \/ CallToDict
  \/ \E name \in SchemaNames, fault \in Faults : GetSchema(name, fault)
  \/ \E name \in SchemaNames, n \in 1..MaxVersions, fault \in Faults :
       GetSchemaVersion(name, n, fault)
  \/ \E name \in SchemaNames, d \in Definitions, c \in Compatibilities :
       CreateSchema(name, d, c)
  \/ \E name \in SchemaNames, d \in Definitions : RegisterSchemaVersion(name, d)
  \/ \E name \in SchemaNames, fault \in Faults : AvroSerialize(name, fault)
  \/ \E fault \in Faults : AvroSerializeReturn(fault)
  \/ \E name \in SchemaNames, data \in Deserializable("avro"), fault \in Faults :
       AvroDeserialize(name, data, fault)
  \/ \E fault \in Faults : AvroDeserializeReturn(fault)
  \/ \E name \in SchemaNames, fault \in Faults : JsonSerialize(name, fault)
  \/ \E fault \in Faults : JsonSerializeReturn(fault)
  \/ \E name \in SchemaNames, data \in Deserializable("json"), fault \in Faults :
       JsonDeserialize(name, data, fault)
  \/ \E fault \in Faults : JsonDeserializeReturn(fault)

Spec == Init /\ [][Next]_vars

(***************************************************************************)
(* client.py: list_schemas and update_schema_compatibility, on a registry  *)
(* that holds more than one schema and is used by other clients too.       *)
(***************************************************************************)
\* Greatest number of schemas the service puts in one page of list_schemas.
MaxPageSize == 2

\* The schema names of the registry, in the order the service lists them.
RegistrySchemas == <<"SalesAuditJSON", "SalesforceAudit">>

RegistryNames == {RegistrySchemas[i] : i \in 1..Len(RegistrySchemas)}

CompatibilityModes == {"BACKWARD", "FULL"}

\* The schemas the registry holds, as the service lists them.
SchemaList(reg) ==
  SelectSeq(RegistrySchemas,
            LAMBDA name : name \in DOMAIN reg /\ reg[name].versions # <<>>)

\* glue_client.list_schemas(RegistryId=...): one page, and a NextToken when
\* there is more.
GlueListSchemas(reg, page_size, fault) ==
  LET all == SchemaList(reg)
      page == [i \in 1..(IF Len(all) < page_size THEN Len(all) ELSE page_size) |->
                 [SchemaName |-> all[i]]]
  IN  IF fault \in {"client_error", "connection_error"} THEN RemoteFailure(fault)
      ELSE IF fault = "incomplete_response" THEN Ok([ResponseMetadata |-> "200"])
      ELSE IF Len(all) > page_size
      THEN Ok([Schemas |-> page, NextToken |-> "more"])
      ELSE Ok([Schemas |-> page])

\* GlueSchemaRegistryClient.list_schemas: response.get('Schemas', [])
ClientListSchemas(reg, page_size, fault) ==
  LET response == GlueListSchemas(reg, page_size, fault)
  IN  Except("ClientError", "Failed to list schemas",
             IF ~response.ok THEN response
             ELSE IF "Schemas" \in DOMAIN response.v THEN Ok(response.v.Schemas)
             ELSE Ok(<<>>))

\* The result is kept with the schemas the registry held at the call.
ListSchemas(page_size, fault) ==
  /\ Idle
  /\ last' = [Outcome("list_schemas", SchemaList(registry),
                      ClientListSchemas(registry, page_size, fault))
                EXCEPT !.fault = fault, !.calls = <<RemoteCall("list_schemas", "", 0)>>]
  /\ UNCHANGED <<registry, audit_event, born, call, cfgvars>>

\* glue_client.update_schema(SchemaId=..., Compatibility=..., Description=...):
\* the response or the failure, and the registry after it.
GlueUpdateSchema(reg, schema_name, compatibility, description, fault) ==
  IF fault \in {"client_error", "connection_error"}
  THEN [response |-> RemoteFailure(fault), registry |-> reg]
  ELSE IF reg[schema_name].versions = <<>>
  THEN [response |-> NotFound, registry |-> reg]
  ELSE [response |-> Ok([SchemaName |-> schema_name]),
        registry |-> [reg EXCEPT ![schema_name].compatibility = compatibility,
                                 ![schema_name].description = description]]

\* GlueSchemaRegistryClient.update_schema_compatibility: what is raised by
\* self.get_schema is no ClientError and passes the except clause.
UpdateSchemaCompatibility(schema_name, compatibility, get_fault, update_fault) ==
  LET schema == ClientGetSchema(registry, schema_name, get_fault)
      \* schema.get('Description', '')
      description == IF "Description" \in DOMAIN schema.v THEN schema.v.Description
                     ELSE ""
      update == GlueUpdateSchema(registry, schema_name, compatibility, description,
                                 update_fault)
      result == IF schema.ok
                THEN Except("ClientError", "Failed to update schema compatibility",
                            update.response)
                ELSE Except("ClientError", "Failed to update schema compatibility", schema)
      calls == <<RemoteCall("get_schema", schema_name, 0)>>
                 \o (IF schema.ok THEN <<RemoteCall("update_schema", schema_name, 0)>>
                     ELSE <<>>)
  IN  /\ Idle
      /\ registry' = IF schema.ok THEN update.registry ELSE registry
      /\ last' = [Outcome("update_schema_compatibility", <<schema_name, compatibility>>,
                          result)
                    EXCEPT !.name = schema_name, !.fault = get_fault, !.calls = calls,
                           !.before = registry[schema_name],
                           !.after = registry'[schema_name]]
      /\ UNCHANGED <<audit_event, born, call, cfgvars>>

\* update_schema with a Description, by any client of the registry.
DescribeSchema(schema_name, description) ==
  /\ registry[schema_name].versions # <<>>
  /\ registry[schema_name].description # description
  /\ registry' = [registry EXCEPT ![schema_name].description = description]
  /\ UNCHANGED <<audit_event, born, call, last, cfgvars>>

InitRegistry ==
  /\ registry = [name \in RegistryNames |-> NoSchema]
  /\ audit_event = NoObject
  /\ born = NoObject
  /\ call = IdleCall
  /\ last = NoLast
  /\ environ = [name \in EnvNames |-> PyNone]
  /\ config_file = NoFile
  /\ config = NoConfig
  /\ reads = 0

NextRegistry ==
  \/ \E name \in RegistryNames, c \in CompatibilityModes :
       CreateSchema(name, CanonicalDef, c)
  \/ \E name \in RegistryNames : RegisterSchemaVersion(name, ReorderedDef)
  \/ \E name \in RegistryNames, d \in {"", "audit events"} : DescribeSchema(name, d)
  \/ \E page_size \in 1..MaxPageSize, fault \in Faults : ListSchemas(page_size, fault)
  \/ \E name \in RegistryNames, c \in CompatibilityModes,
        get_fault \in Faults \ {"incomplete_response"},
        update_fault \in Faults \ {"incomplete_response"} :
       UpdateSchemaCompatibility(name, c, get_fault, update_fault)

SpecRegistry == InitRegistry /\ [][NextRegistry]_vars

(***************************************************************************)
(* tests/test_config.py: the four getters.                                 *)
(***************************************************************************)
\* A getter: the environment first, then the parser, loaded if need be.
\* The result is kept with whether this call read the file.
Getter(op) ==
  LET env_value == environ[Settings[op].env]
      loaded == LoadConfig(config, config_file)
  IN  /\ Idle
      /\ IF Truthy(env_value)
         THEN /\ last' = Outcome(op, Settings[op].env, Ok(env_value))
              /\ UNCHANGED <<config, reads>>
         ELSE /\ config' = loaded.config
              /\ reads' = IF loaded.read THEN reads + 1 ELSE reads
              /\ last' = [Outcome(op, Settings[op].env,
                                  Ok(ConfigGet(loaded.config, Settings[op].option,
                                               Settings[op].fallback)))
                            EXCEPT !.fetched = loaded.read]
      /\ UNCHANGED <<registry, audit_event, born, call, environ, config_file>>

GetRegistryName == Getter("get_registry_name")

GetAwsRegion == Getter("get_aws_region")

GetAvroSchemaName == Getter("get_avro_schema_name")

GetJsonSchemaName == Getter("get_json_schema_name")

\* A test process starts in some environment, with or without the file.
InitConfig ==
  /\ registry = [name \in SchemaNames |-> NoSchema]
  /\ audit_event = NoObject
  /\ born = NoObject
  /\ call = IdleCall
  /\ last = NoLast
  /\ environ \in [EnvNames -> {PyNone, PyStr(<<>>), PyStr(Text(<<"e", "n", "v">>))}]
  /\ config_file \in {NoFile, FileWith(FALSE, {})}
                     \cup {FileWith(TRUE, ops) : ops \in SUBSET DOMAIN Settings}
  /\ config = NoConfig
  /\ reads = 0

NextConfig ==
  \/ GetRegistryName
  \/ GetAwsRegion
  \/ GetAvroSchemaName
  \/ GetJsonSchemaName

SpecConfig == InitConfig /\ [][NextConfig]_vars

(***************************************************************************)
(* Properties.                                                             *)
(***************************************************************************)
\* A record as the data model has it: three text fields and an integer
\* timestamp that is not negative.
ValidAudit(a) ==
  /\ a.live
  /\ a.event_id.k = "str" /\ a.event_name.k = "str" /\ a.event_details.k = "str"
  /\ IsInstanceInt(a.timestamp) /\ a.timestamp.n >= 0

\* A record schema that declares the four fields of the record, in any order.
DeclaresAuditFields(d) ==
  /\ d.form = "avro_record"
  /\ {d.fields[i] : i \in 1..Len(d.fields)}
       = {Field(KeyEventId, "string"), Field(KeyEventName, "string"),
          Field(KeyTimestamp, "long"), Field(KeyEventDetails, "string")}

Audit(args) ==
  [live |-> TRUE, event_id |-> args[1], event_name |-> args[2],
   timestamp |-> args[3], event_details |-> args[4]]

\* deserialize was given the bytes an earlier serialize of the same adapter
\* returned, and both calls fetched the same definition.
RoundTrip ==
  /\ last.op = "deserialize"
  /\ last.prev.live
  /\ last.fetched
  /\ last.definition = last.prev.definition

\* C1: round trip.  When deserialize is given the bytes that serialize of the
\* same adapter returned for a valid record, both calls fetch the same
\* definition and (binary adapter) that definition declares the four fields,
\* deserialize returns a record equal to the original in all four fields.
C1_RoundTrip ==
  ( /\ RoundTrip
    /\ ValidAudit(last.prev.audit_event)
    /\ (last.adapter = "avro" => DeclaresAuditFields(last.definition)) )
  => (last.ok /\ last.ret = last.prev.audit_event)

C1_Witness ==
  /\ RoundTrip
  /\ last.adapter = "avro"
  /\ last.definition = ReorderedDef
  /\ last.prev.audit_event = Audit(ArgsCreate)
  /\ last.ok
  /\ Len(last.ret.event_details.s) >= 64

\* C2: the constructor raises ValueError and yields no record when the
\* timestamp is not an int or is negative, and returns the record holding
\* the four arguments otherwise, whatever the text fields are.
C2_ConstructorValidates ==
  last.op = "construct" =>
    IF IsInstanceInt(last.arg[3]) /\ last.arg[3].n >= 0
    THEN last.ok /\ last.ret = Audit(last.arg) /\ audit_event = Audit(last.arg)
    ELSE ~last.ok /\ last.exc.type = "ValueError" /\ last.ret = PyNone

C2_Witness ==
  /\ last.op = "construct"
  /\ last.arg = ArgsNegative
  /\ last.exc.type = "ValueError"

\* C3 (as claimed): the caller's record holds the values it was constructed
\* with, so its timestamp is an integer that is not negative.
C3_RecordImmutable ==
  audit_event.live =>
    (audit_event = born /\ IsInstanceInt(audit_event.timestamp)
     /\ audit_event.timestamp.n >= 0)

\* C4: a serializer call in which anything raised ends in a
\* SchemaRegistryException whose message is the method's prefix followed by
\* the message of what was raised, and returns nothing; a call in which
\* nothing raised returns its value.
C4_FailuresWrapped ==
  last.op \in {"serialize", "deserialize"} =>
    IF last.cause = NoException
    THEN last.ok /\ last.exc = NoException
    ELSE /\ ~last.ok
         /\ last.ret = PyNone
         /\ last.exc.type = "SchemaRegistryException"
         /\ Len(last.exc.msg) = Len(last.cause.msg) + 1
         /\ SubSeq(last.exc.msg, 2, Len(last.exc.msg)) = last.cause.msg

\* Binary deserialize of five arbitrary bytes, the schema fetched.
C4_Witness ==
  /\ last.op = "deserialize"
  /\ last.adapter = "avro"
  /\ last.fetched
  /\ last.arg = <<1, 2, 3, 4, 5>>
  /\ last.cause.type = "EOFError"
  /\ last.exc.type = "SchemaRegistryException"

\* C5 (as claimed): get_schema and get_schema_version raise nothing but
\* SchemaRegistryException, whatever made the remote call fail.
C5_SingleRegistryFailure ==
  (last.op \in {"get_schema", "get_schema_version"} /\ ~last.ok)
  => last.exc.type = "SchemaRegistryException"

\* The record textual deserialize is to return for the sample object with
\* the keys `keys`.
SampleDefaulted(keys) ==
  [live |-> TRUE,
   event_id |-> IF KeyEventId \in keys THEN PyStr(Text(<<"x">>)) ELSE PyStr(<<>>),
   event_name |-> IF KeyEventName \in keys THEN PyStr(Text(<<"n">>)) ELSE PyStr(<<>>),
   timestamp |-> IF KeyTimestamp \in keys THEN PyInt(7) ELSE PyInt(0),
   event_details |-> IF KeyEventDetails \in keys THEN PyStr(Text(<<"d">>)) ELSE PyStr(<<>>)]

SamplePayloads == [keys \in SUBSET WireKeys |-> SamplePayload(keys)]

\* C6: textual deserialize of a JSON object holding any subset of the four
\* keys (the fetch having succeeded) returns the record with "" for each
\* missing text field, 0 for a missing timestamp, and the payload's value
\* for each key that is there.
C6_LenientDefaults ==
  (last.op = "deserialize" /\ last.adapter = "json" /\ last.fetched)
  => \A keys \in SUBSET WireKeys :
       last.arg = SamplePayloads[keys]
       => (last.ok /\ last.ret = SampleDefaulted(keys))

\* {"eventId": "x"} yields SalesforceAudit("x", "", 0, "").
C6_Witness ==
  /\ last.op = "deserialize"
  /\ last.adapter = "json"
  /\ last.fetched
  /\ last.arg = Text(<<"{", "\"", "e", "v", "e", "n", "t", "I", "d", "\"", ":", " ",
                       "\"", "x", "\"", "}">>)
  /\ last.ok
  /\ last.ret = Audit(<<PyStr(Text(<<"x">>)), PyStr(<<>>), PyInt(0), PyStr(<<>>)>>)

\* C7: a step of a serializer call (one that starts it, or one that ends it
\* with a result) leaves the registry as it is, and a call that has ended
\* leaves nothing of its own behind.
C7_RegistryUntouched ==
  [][ (call' # call \/ (last' # last /\ last'.op \in {"serialize", "deserialize"}))
      => (registry' = registry /\ (call'.pc = "idle" => call' = IdleCall)) ]_vars

C7_Witness ==
  /\ last.op \in {"serialize", "deserialize"}
  /\ last.ok
  /\ Len(registry[last.name].versions) = 2

\* Binary deserialize of the bytes of an earlier binary serialize, the
\* definition fetched.
AvroReadBack ==
  /\ last.op = "deserialize"
  /\ last.adapter = "avro"
  /\ last.prev.live
  /\ last.fetched

\* C8 (as claimed): binary deserialize parses the bytes against the
\* definition they were written with, whatever other clients of the
\* registry did between the two calls.
C8_SameDefinitionAsWritten == AvroReadBack => last.definition = last.prev.definition

WireName ==
  [event_id |-> KeyEventId, event_name |-> KeyEventName,
   timestamp |-> KeyTimestamp, event_details |-> KeyEventDetails]

AuditFields == {"event_id", "event_name", "timestamp", "event_details"}

\* C10: the four places map each record field to the same wire name.  What
\* binary serialize wrote reads back, under the definition used, as a row
\* holding each record field under its wire name; what textual serialize
\* wrote is a JSON object with exactly the four wire names, each holding its
\* record field; the record either deserialize returns holds, in each
\* field, what the payload holds under the field's wire name.
C10_FieldMapping ==
  /\ (last.op = "serialize" /\ last.ok /\ last.adapter = "json")
     => LET d == JsonLoads(Utf8Decode(last.ret).v.s)
        IN  /\ d.ok
            /\ d.v.k = "dict"
            /\ Len(d.v.items) = 4
            /\ DictKeys(d.v) = WireKeys
            /\ \A f \in AuditFields : DictLookup(d.v, WireName[f]) = last.arg[f]
  /\ (last.op = "serialize" /\ last.ok /\ last.adapter = "avro")
     => LET d == SchemalessReader(last.ret, last.definition)
        IN  /\ d.ok
            /\ \A f \in AuditFields :
                 DictHas(d.v, WireName[f]) => DictLookup(d.v, WireName[f]) = last.arg[f]
  /\ (last.op = "deserialize" /\ last.ok /\ last.adapter = "avro")
     => LET d == SchemalessReader(last.arg, last.definition)
        IN  /\ d.ok
            /\ \A f \in AuditFields : last.ret[f] = DictLookup(d.v, WireName[f])
  /\ (last.op = "deserialize" /\ last.ok /\ last.adapter = "json")
     => LET d == JsonLoads(Utf8Decode(last.arg).v.s)
        IN  /\ d.ok
            /\ \A f \in AuditFields :
                 DictHas(d.v, WireName[f]) => last.ret[f] = DictLookup(d.v, WireName[f])

C10_Witness ==
  /\ last.op = "serialize"
  /\ last.adapter = "json"
  /\ last.ok
  /\ last.arg = Audit(ArgsCreate)

\* A serializer call that has returned or raised.
SerializerCallEnded == last.op \in {"serialize", "deserialize"}

\* C11: a serializer call of either adapter issues get_schema first and
\* once, then at most one get_schema_version, for the version get_schema
\* reported as latest.  A call that did not get a latest version from
\* get_schema issues nothing more, does no local work and fails with what
\* the fetch raised; a call returns a value only after both remote calls.
C11_FetchThenLocal ==
  SerializerCallEnded =>
    /\ Len(last.calls) \in {1, 2}
    /\ last.calls[1] = RemoteCall("get_schema", last.name, 0)
    /\ Len(last.calls) = 2 =>
         /\ last.latest \in 1..Len(registry[last.name].versions)
         /\ last.calls[2] = RemoteCall("get_schema_version", last.name, last.latest)
    /\ Len(last.calls) = 1 =>
         /\ ~last.ok
         /\ ~last.fetched
         /\ last.exc.type = "SchemaRegistryException"
         /\ last.cause.type \in {"SchemaRegistryException", "EndpointConnectionError",
                                 "KeyError"}
    /\ last.ok => (last.fetched /\ Len(last.calls) = 2)
    /\ ~last.fetched =>
         last.cause.type \in {"SchemaRegistryException", "EndpointConnectionError",
                              "KeyError"}

\* The textual serialize whose get_schema reported version 2 and which
\* fetched that version.
C11_Witness ==
  /\ last.op = "serialize"
  /\ last.adapter = "json"
  /\ last.ok
  /\ last.calls = <<RemoteCall("get_schema", last.name, 0),
                    RemoteCall("get_schema_version", last.name, 2)>>

\* C12 (as claimed): every record textual deserialize returns has text in
\* event_id, event_name and event_details and an integer that is not
\* negative in timestamp.
C12_DeserializedValid ==
  (last.op = "deserialize" /\ last.adapter = "json" /\ last.ok) => ValidAudit(last.ret)

\* C13 (as claimed): list_schemas returns every schema of the registry
\* exactly once, in however many pages the service delivers its list, and
\* the empty list when the response has no 'Schemas' entry.
C13_ListsAllSchemas ==
  (last.op = "list_schemas" /\ last.ok) =>
    IF last.fault = "incomplete_response" THEN last.ret = <<>>
    ELSE last.ret = [i \in 1..Len(last.arg) |-> [SchemaName |-> last.arg[i]]]

\* C14 (as claimed): update_schema_compatibility reads the schema, then
\* issues one update_schema; after a successful call the schema has the
\* new compatibility and apart from that is what it was; when get_schema
\* failed no update_schema was issued, the schema is what it was and what
\* the caller gets is a SchemaRegistryException.
C14_UpdateKeepsTheRest ==
  last.op = "update_schema_compatibility" =>
    /\ last.calls[1] = RemoteCall("get_schema", last.name, 0)
    /\ last.ok =>
         /\ last.calls = <<RemoteCall("get_schema", last.name, 0),
                           RemoteCall("update_schema", last.name, 0)>>
         /\ last.after = [last.before EXCEPT !.compatibility = last.arg[2]]
    /\ Len(last.calls) = 1 =>
         /\ ~last.ok
         /\ last.after = last.before
         /\ last.exc.type = "SchemaRegistryException"

\* What the getter `op` is to return in this process.
Configured(op) ==
  LET env_value == environ[Settings[op].env]
  IN  IF env_value.k = "str" /\ Len(env_value.s) > 0 THEN env_value
      ELSE IF /\ config_file.exists
              /\ config_file.has_test
              /\ DictHas(config_file.options, Settings[op].option)
      THEN DictLookup(config_file.options, Settings[op].option)
      ELSE Settings[op].fallback

\* The last call was the getter `op`.
GetterReturned(op) == last.op = op

\* C15: in any sequence of getter calls each getter returns the variable of
\* the environment when it is set and not empty, else the file's value when
\* the file defines the option, else the fallback; the file is read at most
\* once, and only by a call whose variable is unset or empty.
C15_EnvThenFileThenFallback ==
  /\ [](\A op \in DOMAIN Settings :
          GetterReturned(op) => (last.ok /\ last.ret = Configured(op)))
  /\ [](reads <= 1)
  /\ [][reads' # reads =>
          /\ reads' = 1
          /\ last'.op \in DOMAIN Settings
          /\ ~Truthy(environ[Settings[last'.op].env])]_vars

\* A getter answered from the file without reading it: an earlier call
\* had read it.
C15_Witness ==
  /\ GetterReturned("get_aws_region")
  /\ last.ret = PyStr(Text(<<"i", "n", "i">>))
  /\ ~last.fetched
  /\ reads = 1
  /\ Truthy(environ["SCHEMA_NAME_AVRO"])

====
